---- MODULE Spec2Model ----
(***************************************************************************)
(* A model of the numeric kernels and toy wrapper types of the PythonHPC   *)
(* notebooks: the Euclidean / Cityblock distance-matrix kernels            *)
(* (numba/simple/*.ipynb) and, from cython/notebooks/Cython1.ipynb, the    *)
(* CyRangeVector extension types, the Julia-set kernels and the Monte      *)
(* Carlo estimators of pi.                                                 *)
(*                                                                         *)
(* Each component has a specification of its own (SpecDist, SpecRange,     *)
(* SpecJulia, SpecMC); the variables of the other components stay at their *)
(* idle values.  Doubles are modelled by the integers they hold (every     *)
(* input is drawn integer-valued, so the arithmetic is exact); C ints keep *)
(* a width, scaled down to IntBits bits.  Arrays are 1-based here and      *)
(* 0-based in the source.                                                  *)
(***************************************************************************)
EXTENDS Integers, Sequences, FiniteSets, TLC

VARIABLES
    \* ---- distance-matrix kernels
    dX,         \* input matrix x: a sequence of N rows of m features
    dY,         \* input matrix y: a sequence of M rows of m features
    dKernel,    \* the kernel last called, "none" before any call
    dOut,       \* what that call produced
    \* ---- CyRangeVector (one object per behaviour)
    rvVariant,  \* "malloc" (int *data, int size) or "vector" (vector[int] data)
    rvStart,    \* __cinit__'s argument start
    rvEnd,      \* __cinit__'s argument end
    rvPc,       \* "new", "loop", "constructed", "raised", "segfault", "dead"
    rvSize,     \* the field size (malloc variant)
    rvPtr,      \* the field data as a pointer: "null", "valid", "freed"
    rvData,     \* the cells of the buffer (malloc) or of the vector
    rvI,        \* __cinit__'s loop variable, an unsigned int
    rvGet,      \* the last __getitem__ call
    rvHeap,     \* what the object asked of the allocator, and its last write
    \* ---- Julia-set kernels
    jVariant,   \* "sequential", "prange" or "static" (julia_set_cython_static)
    jX,         \* X: the real parts of the pixels (ny rows of nx)
    jY,         \* Y: the imaginary parts
    jC,         \* cx, cy
    jIterMax,   \* iter_max
    julia,      \* the output grid
    jThreads,   \* the number of worker threads of this run
    jPhase,     \* "running", "returned" or "crashed" (segmentation fault)
    jRun,       \* 1 in the first call, 2 in the call repeated on the same inputs
    jFirst,     \* the output grid the first call left
    jExec,      \* per row: how many times the row's iteration was started
    jRowOwner,  \* per row: the worker that started it last (0: none)
    jW,         \* per worker: its position and its private i, j, x, y, k
    jWrites,    \* per cell of julia: how many times it was written in this call
    jStale,     \* a worker read a private variable no write of the same
                \* row iteration had set
    \* ---- Monte Carlo estimators of pi
    mcVariant,  \* which estimator is called
    mcN,        \* the argument n
    mcPc,       \* "start", "loop", "returned", "raised" or "undefined"
    mcBound,    \* the bound the loop counter is compared with
    mcI,        \* the iterations completed
    mcCount,    \* in_circle
    mcDraws,    \* the pairs (x, y) drawn so far
    mcHits,     \* how many of the drawn pairs have x*x + y*y <= 1
    mcResult,   \* the value returned, as the fraction num / den
    mcRef,      \* the pure-Python pi_mc run on the same samples beside an
                \* optimized estimator: its position, i, in_circle and result
    rdKernel,   \* the kernel whose loops are stepped: euclidean_numba1 or cityblock_numba1
    rdPc,       \* "pair" (before r = 0.0), "feat" (in the loop over k), "returned"
    rdI,        \* i
    rdJ,        \* j
    rdDone,     \* the values of k whose iteration has run for this pair
    rdR,        \* r
    rdM,        \* dist_matrix
    rcN,        \* CyRectangles.__cinit__'s argument n
    rcPc,       \* "new", "loop", "constructed" or "raised"
    rcI,        \* __cinit__'s loop variable, an unsigned int
    rcList,     \* self.rectangles: the (x, y) of each CyRectangle
    rcCalls,    \* the values the calls of total_area() returned
    smFn,       \* "my_sum", "my_sum2d" or "my_sum2d_unchecked" (boundscheck and wraparound off)
    smRows,     \* x.shape[0]
    smCols,     \* x.shape[1] (1 for the 1-D array of my_sum)
    smX,        \* the elements of x in row-major order
    smPc,       \* "start", "loop", "returned"
    smN,        \* the C int n (my_sum) or rows (my_sum2d)
    smColumns,  \* the C int columns
    smI,        \* i
    smJ,        \* j
    smS,        \* s
    smReads,    \* per element of x: how many times it was read
    smBad       \* an index outside 0 <= i < rows, 0 <= j < columns was used

distVars == <<dX, dY, dKernel, dOut>>

rangeVars == <<rvVariant, rvStart, rvEnd, rvPc, rvSize, rvPtr, rvData, rvI, rvGet,
              rvHeap>>

juliaVars == <<jVariant, jX, jY, jC, jIterMax, julia, jThreads, jPhase, jRun, jFirst,
              jExec, jRowOwner, jW, jWrites, jStale>>

mcVars == <<mcVariant, mcN, mcPc, mcBound, mcI, mcCount, mcDraws, mcHits, mcResult>>

reduceVars == <<rdKernel, rdPc, rdI, rdJ, rdDone, rdR, rdM>>

rectVars == <<rcN, rcPc, rcI, rcList, rcCalls>>

sumVars == <<smFn, smRows, smCols, smX, smPc, smN, smColumns, smI, smJ, smS, smReads, smBad>>

vars == <<dX, dY, dKernel, dOut,
          rvVariant, rvStart, rvEnd, rvPc, rvSize, rvPtr, rvData, rvI, rvGet,
          jVariant, jX, jY, jC, jIterMax, julia, jThreads, jPhase, jRun, jFirst,
          jExec, jRowOwner, jW, jWrites, jStale,
          mcVariant, mcN, mcPc, mcBound, mcI, mcCount, mcDraws, mcHits, mcResult,
          mcRef,
          rdKernel, rdPc, rdI, rdJ, rdDone, rdR, rdM,
          rcN, rcPc, rcI, rcList, rcCalls,
          smFn, smRows, smCols, smX, smPc, smN, smColumns, smI, smJ, smS, smReads, smBad>>

\* The variables each component leaves alone.
notDist == <<rangeVars, juliaVars, mcVars, mcRef, reduceVars, rectVars, sumVars>>

notRange == <<distVars, juliaVars, mcVars, mcRef, reduceVars, rectVars, sumVars>>

notJulia == <<distVars, rangeVars, mcVars, mcRef, reduceVars, rectVars, sumVars>>

notMC == <<distVars, rangeVars, juliaVars, reduceVars, rectVars, sumVars>>

notReduce == <<rangeVars, juliaVars, mcVars, mcRef, distVars, rectVars, sumVars>>

notRect == <<rangeVars, juliaVars, mcVars, mcRef, reduceVars, distVars, sumVars>>

notSum == <<rangeVars, juliaVars, mcVars, mcRef, reduceVars, rectVars, distVars>>

(***************************************************************************)
(* Bounds of the model.                                                    *)
(***************************************************************************)
MaxCells == 4       \* a distance-kernel input matrix holds at most MaxCells cells
IntBits == 3        \* the width of a C int / unsigned int, scaled down from 32
MaxNy == 2          \* Julia grids of 1..MaxNy rows
MaxNx == 2          \* ... and 1..MaxNx columns
MaxThreads == 2     \* 1..MaxThreads worker threads
MaxIter == 2        \* the largest iter_max

\* The values a matrix cell is drawn from (differences -3, 0, 3: a square
\* and an absolute value differ).
DistVals == {-1, 2}

(***************************************************************************)
(* Arithmetic helpers.                                                     *)
(***************************************************************************)
\* np.abs on a scalar
Abs(v) == IF v < 0 THEN -v ELSE v

RECURSIVE SumUpTo(_, _)
\* ndarray.sum() of the first n entries of vector f, accumulated in order
SumUpTo(f, n) == IF n = 0 THEN 0 ELSE SumUpTo(f, n - 1) + f[n]

\* x[i] - y[j] on two rows (elementwise)
VecSub(a, b) == [k \in 1..Len(a) |-> a[k] - b[k]]

\* v ** 2 on a row (elementwise)
VecSquare(v) == [k \in 1..Len(v) |-> v[k] * v[k]]

\* np.linalg.norm(v, 1): the sum of the absolute values
Norm1(v) == SumUpTo([k \in 1..Len(v) |-> Abs(v[k])], Len(v))

\* np.einsum('ij,ij->i', a, a): the dot product of each row with itself
EinsumRowDot(a) ==
    [i \in 1..Len(a) |-> SumUpTo([k \in 1..Len(a[i]) |-> a[i][k] * a[i][k]], Len(a[i]))]

\* np.dot(x, y.T): entry (i, j) is the dot product of row i of x and row j of y
DotT(x, y) ==
    [i \in 1..Len(x) |->
        [j \in 1..Len(y) |->
            SumUpTo([k \in 1..Len(x[i]) |-> x[i][k] * y[j][k]], Len(x[i]))]]

(***************************************************************************)
(* Reading row j of y.  The numba kernels are compiled in nopython mode,   *)
(* which does no bounds check: a row index past the end of y reads         *)
(* whatever lies there (the row g).  Plain Python raises IndexError.       *)
(***************************************************************************)
RowUnchecked(y, j, g) == IF j <= Len(y) THEN y[j] ELSE g

RowsInBounds(x, y) == Len(x) <= Len(y)

Matrix(m) == [kind |-> "matrix", val |-> m]

IndexError == [kind |-> "IndexError"]

(***************************************************************************)
(* The Euclidean kernels.                                                  *)
(***************************************************************************)
RECURSIVE euclidean_r_short(_, _, _)
\* euclidean_r with the loop over the features stopping one feature early
euclidean_r_short(xi, yj, k) ==
    IF k <= 1 THEN 0
    ELSE euclidean_r_short(xi, yj, k - 1) + (xi[k - 1] - yj[k - 1]) * (xi[k - 1] - yj[k - 1])

RECURSIVE euclidean_r(_, _, _)
\* r = 0.0; for k in numba.prange(num_feat): r += (x[i][k] - y[j][k])**2
\* (the function is jitted without parallel=True: prange is range)
euclidean_r(xi, yj, k) ==
    IF k = 0 THEN 0
    ELSE euclidean_r(xi, yj, k - 1) + (xi[k] - yj[k]) * (xi[k] - yj[k])

euclidean_numba1(x, y, g) ==
    LET num_samples == Len(x)
        num_feat == Len(x[1])
    IN  Matrix([i \in 1..num_samples |->
                  [j \in 1..num_samples |->
                      euclidean_r(x[i], RowUnchecked(y, j, g), num_feat)]])

euclidean_numba2(x, y, g) ==
    LET num_samples == Len(x)
        num_feat == Len(x[1])
    IN  Matrix([i \in 1..num_samples |->
                  [j \in 1..num_samples |->
                      SumUpTo(VecSquare(VecSub(x[i], RowUnchecked(y, j, g))), num_feat)]])

\* euclidean_numpy with the factor 2. of the cross term forgotten
euclidean_numpy_no_factor(x, y) ==
    LET x2 == EinsumRowDot(x)
        y2 == EinsumRowDot(y)
        xy == DotT(x, y)
    IN  Matrix([i \in 1..Len(x) |->
                  [j \in 1..Len(y) |-> Abs(x2[i] + y2[j] - xy[i][j])]])

euclidean_numpy(x, y) ==
    LET x2 == EinsumRowDot(x)       \* column (N, 1)
        y2 == EinsumRowDot(y)       \* row (1, M)
        xy == DotT(x, y)            \* (N, M)
    IN  Matrix([i \in 1..Len(x) |->
                  [j \in 1..Len(y) |-> Abs(x2[i] + y2[j] - 2 * xy[i][j])]])

(***************************************************************************)
(* The Cityblock kernels.                                                  *)
(***************************************************************************)
RECURSIVE cityblock_r(_, _, _)
\* r = 0.0; for k in range(num_feat): r += np.abs(x[i][k] - y[j][k])
cityblock_r(xi, yj, k) ==
    IF k = 0 THEN 0
    ELSE cityblock_r(xi, yj, k - 1) + Abs(xi[k] - yj[k])

cityblock_python(x, y) ==
    LET num_samples == Len(x)
        num_feat == Len(x[1])
    IN  IF ~RowsInBounds(x, y) THEN IndexError
        ELSE Matrix([i \in 1..num_samples |->
                       [j \in 1..num_samples |-> cityblock_r(x[i], y[j], num_feat)]])

cityblock_numba1(x, y, g) ==
    LET num_samples == Len(x)
        num_feat == Len(x[1])
    IN  Matrix([i \in 1..num_samples |->
                  [j \in 1..num_samples |->
                      cityblock_r(x[i], RowUnchecked(y, j, g), num_feat)]])

\* cityblock_numba2 summing the differences themselves (the norm's absolute
\* value lost)
cityblock_numba2_signed(x, y, g) ==
    LET num_samples == Len(x)
    IN  Matrix([i \in 1..num_samples |->
                  [j \in 1..num_samples |->
                      SumUpTo(VecSub(x[i], RowUnchecked(y, j, g)), Len(x[i]))]])

cityblock_numba2(x, y, g) ==
    LET num_samples == Len(x)
    IN  Matrix([i \in 1..num_samples |->
                  [j \in 1..num_samples |->
                      Norm1(VecSub(x[i], RowUnchecked(y, j, g)))]])

(***************************************************************************)
(* Fixed-width C integers: int and unsigned int have IntBits bits, size_t  *)
(* twice as many.                                                          *)
(***************************************************************************)
RECURSIVE TwoPow(_)
TwoPow(n) == IF n = 0 THEN 1 ELSE 2 * TwoPow(n - 1)

UIntMod == TwoPow(IntBits)

IntMax == TwoPow(IntBits - 1) - 1

IntMin == -TwoPow(IntBits - 1)

IntRange == IntMin..IntMax

SizeTMod == TwoPow(2 * IntBits)

\* the conversion int -> unsigned int
ToUnsigned(v) == v % UIntMod

\* the conversion unsigned int -> int, and the result of int arithmetic
ToSigned(u) == LET r == u % UIntMod IN IF r > IntMax THEN r - UIntMod ELSE r

\* the conversion int -> size_t
ToSizeT(v) == v % SizeTMod

(***************************************************************************)
(* The idle values of each component's variables.                          *)
(***************************************************************************)
NoGet == [called |-> FALSE, idx |-> 0, didRead |-> FALSE, pos |-> 0,
          kind |-> "none", val |-> 0]

\* no call of malloc or free yet, and no write through data
NoHeap == [mallocs |-> 0, frees |-> 0, freeArg |-> "none",
           wrote |-> FALSE, wpos |-> 0, wptr |-> "none"]

\* A pointer field that holds no address set by the program.
UnsetField == "wild"

\* The C fields of a cdef class are zeroed when the object is allocated,
\* before __cinit__ runs: data is a null pointer.
ZeroedField == "null"

DistIdle ==
    /\ dX = <<>>
    /\ dY = <<>>
    /\ dKernel = "none"
    /\ dOut = [kind |-> "none"]

RangeIdle ==
    /\ rvVariant = "none"
    /\ rvStart = 0
    /\ rvEnd = 0
    /\ rvPc = "new"
    /\ rvSize = 0
    /\ rvPtr = ZeroedField
    /\ rvData = <<>>
    /\ rvI = 0
    /\ rvGet = NoGet
    /\ rvHeap = NoHeap

JuliaIdle ==
    /\ jVariant = "none"
    /\ jX = <<>>
    /\ jY = <<>>
    /\ jC = [cx |-> 0, cy |-> 0]
    /\ jIterMax = 0
    /\ julia = <<>>
    /\ jThreads = 0
    /\ jPhase = "idle"
    /\ jRun = 0
    /\ jFirst = <<>>
    /\ jExec = <<>>
    /\ jRowOwner = <<>>
    /\ jW = <<>>
    /\ jWrites = <<>>
    /\ jStale = FALSE

SumIdle ==
    /\ smFn = "none"
    /\ smRows = 0
    /\ smCols = 0
    /\ smX = <<>>
    /\ smPc = "idle"
    /\ smN = 0
    /\ smColumns = 0
    /\ smI = 0
    /\ smJ = 0
    /\ smS = 0
    /\ smReads = <<>>
    /\ smBad = FALSE

RectIdle ==
    /\ rcN = 0
    /\ rcPc = "idle"
    /\ rcI = 0
    /\ rcList = <<>>
    /\ rcCalls = <<>>

ReduceIdle ==
    /\ rdKernel = "none"
    /\ rdPc = "idle"
    /\ rdI = 0
    /\ rdJ = 0
    /\ rdDone = {}
    /\ rdR = 0
    /\ rdM = <<>>

NoResult == [num |-> 0, den |-> 1]

\* no pure-Python run beside the estimator
RefIdle == [pc |-> "idle", i |-> 0, count |-> 0, result |-> NoResult]

MCIdle ==
    /\ mcVariant = "none"
    /\ mcN = 0
    /\ mcPc = "idle"
    /\ mcBound = 0
    /\ mcI = 0
    /\ mcCount = 0
    /\ mcDraws = 0
    /\ mcHits = 0
    /\ mcResult = NoResult
    /\ mcRef = RefIdle

(***************************************************************************)
(* The distance kernels as a state machine: the inputs are drawn at Init,  *)
(* each action is one call of one kernel.                                  *)
(***************************************************************************)
Rows(m) == [1..m -> DistVals]

Mats(n, m) == [1..n -> Rows(m)]

NumFeat == Len(dX[1])

\* What an unchecked read past the end of y may find, when the call makes one.
Garbage == IF RowsInBounds(dX, dY) THEN {dY[1]} ELSE Rows(NumFeat)

DistInit ==
    /\ \E n \in 1..MaxCells, mm \in 1..MaxCells, m \in 1..MaxCells :
          /\ n * m <= MaxCells
          /\ mm * m <= MaxCells
          /\ dX \in Mats(n, m)
          /\ dY \in Mats(mm, m)
    /\ dKernel = "none"
    /\ dOut = [kind |-> "none"]
    /\ RangeIdle
    /\ JuliaIdle
    /\ MCIdle
    /\ ReduceIdle
    /\ RectIdle
    /\ SumIdle

Call_euclidean_numba1 ==
    /\ dKernel = "none"
    /\ \E g \in Garbage : dOut' = euclidean_numba1(dX, dY, g)
    /\ dKernel' = "euclidean_numba1"
    /\ UNCHANGED <<dX, dY, notDist>>

Call_euclidean_numba2 ==
    /\ dKernel = "none"
    /\ \E g \in Garbage : dOut' = euclidean_numba2(dX, dY, g)
    /\ dKernel' = "euclidean_numba2"
    /\ UNCHANGED <<dX, dY, notDist>>

Call_euclidean_numpy ==
    /\ dKernel = "none"
    /\ dOut' = euclidean_numpy(dX, dY)
    /\ dKernel' = "euclidean_numpy"
    /\ UNCHANGED <<dX, dY, notDist>>

Call_cityblock_python ==
    /\ dKernel = "none"
    /\ dOut' = cityblock_python(dX, dY)
    /\ dKernel' = "cityblock_python"
    /\ UNCHANGED <<dX, dY, notDist>>

Call_cityblock_numba1 ==
    /\ dKernel = "none"
    /\ \E g \in Garbage : dOut' = cityblock_numba1(dX, dY, g)
    /\ dKernel' = "cityblock_numba1"
    /\ UNCHANGED <<dX, dY, notDist>>

Call_cityblock_numba2 ==
    /\ dKernel = "none"
    /\ \E g \in Garbage : dOut' = cityblock_numba2(dX, dY, g)
    /\ dKernel' = "cityblock_numba2"
    /\ UNCHANGED <<dX, dY, notDist>>

DistNext ==
    \/ Call_euclidean_numba1
    \/ Call_euclidean_numba2
    \/ Call_euclidean_numpy
    \/ Call_cityblock_python
    \/ Call_cityblock_numba1
    \/ Call_cityblock_numba2

SpecDist == DistInit /\ [][DistNext]_vars

(***************************************************************************)
(* Claims on the distance kernels.                                         *)
(***************************************************************************)
SameShape == Len(dX) = Len(dY)

EuclideanKernels == {"euclidean_numba1", "euclidean_numba2", "euclidean_numpy"}

CityblockKernels == {"cityblock_python", "cityblock_numba1", "cityblock_numba2"}

LoopKernels == {"euclidean_numba1", "euclidean_numba2"} \cup CityblockKernels

\* C1: on two matrices of the same shape, whichever Euclidean kernel was
\* called, its result is the matrix each of euclidean_numpy, euclidean_numba1
\* and euclidean_numba2 returns on these inputs, entry by entry.
C1_EuclideanKernelsAgree ==
    (SameShape /\ dKernel \in EuclideanKernels) =>
        /\ dOut = euclidean_numpy(dX, dY)
        /\ dOut = euclidean_numba1(dX, dY, dY[1])
        /\ dOut = euclidean_numba2(dX, dY, dY[1])

\* C1 witness: euclidean_numpy has run on two 2 x 2 matrices that differ.
C1_Witness ==
    /\ dKernel = "euclidean_numpy"
    /\ Len(dX) = 2 /\ Len(dY) = 2 /\ NumFeat = 2
    /\ dOut.val[1][2] # 0
    /\ dOut.val[2][1] # dOut.val[1][2]

\* C2: on two matrices of the same shape, whichever Cityblock kernel was
\* called, its result is the matrix each of cityblock_python,
\* cityblock_numba1 and cityblock_numba2 returns on these inputs.
C2_CityblockKernelsAgree ==
    (SameShape /\ dKernel \in CityblockKernels) =>
        /\ dOut = cityblock_python(dX, dY)
        /\ dOut = cityblock_numba1(dX, dY, dY[1])
        /\ dOut = cityblock_numba2(dX, dY, dY[1])

\* C2 witness: cityblock_numba2 has run on two 2 x 2 matrices that differ.
C2_Witness ==
    /\ dKernel = "cityblock_numba2"
    /\ Len(dX) = 2 /\ Len(dY) = 2 /\ NumFeat = 2
    /\ dOut.val[1][2] # 0
    /\ dOut.val[2][1] # dOut.val[1][2]

\* The distance the spec gives for a pair of rows: the sum over the features
\* of the squared (Euclidean) or absolute (Cityblock) differences.
PairDistance(kernel, a, b) ==
    IF kernel \in EuclideanKernels
    THEN SumUpTo([k \in 1..Len(a) |-> (a[k] - b[k]) * (a[k] - b[k])], Len(a))
    ELSE SumUpTo([k \in 1..Len(a) |-> IF a[k] >= b[k] THEN a[k] - b[k] ELSE b[k] - a[k]],
                 Len(a))

\* C3 as stated: a loop-based kernel returns one entry for each pair (row i
\* of x, row j of y), N x M of them, each the pair's distance, also when the
\* row counts N and M differ.
C3_OneEntryPerPair ==
    dKernel \in LoopKernels =>
        /\ dOut.kind = "matrix"
        /\ Len(dOut.val) = Len(dX)
        /\ \A i \in 1..Len(dX) :
              /\ Len(dOut.val[i]) = Len(dY)
              /\ \A j \in 1..Len(dY) :
                    dOut.val[i][j] = PairDistance(dKernel, dX[i], dY[j])

\* C3 amended: when y has at least as many rows as x (N <= M), a loop-based
\* kernel returns an N x N matrix whose entry (i, j) is the distance of row i
\* of x and row j of y; the rows of y past the N-th get no entry.
C3_SquareBlockOfPairs ==
    (dKernel \in LoopKernels /\ Len(dX) <= Len(dY)) =>
        /\ dOut.kind = "matrix"
        /\ Len(dOut.val) = Len(dX)
        /\ \A i \in 1..Len(dX) :
              /\ Len(dOut.val[i]) = Len(dX)
              /\ \A j \in 1..Len(dX) :
                    dOut.val[i][j] = PairDistance(dKernel, dX[i], dY[j])

\* C3 witness: euclidean_numba1 has run on x of 2 rows and y of more rows,
\* and found a pair of rows at a distance other than 0.
C3_Witness ==
    /\ dKernel = "euclidean_numba1"
    /\ Len(dX) = 2 /\ Len(dY) > 2
    /\ dOut.val[2][1] # 0

(***************************************************************************)
(* CyRangeVector, in its two variants: the buffer from malloc (int *data,  *)
(* int size) and the std::vector (vector[int] data).                       *)
(***************************************************************************)
\* A cell of the malloc'ed buffer that was never written.
Uninit == [init |-> FALSE, val |-> 0]

Cell(v) == [init |-> TRUE, val |-> v]

\* self.size in the malloc variant, self.data.size() in the vector variant
Size == IF rvVariant = "malloc" THEN rvSize ELSE Len(rvData)

\* What malloc(self.size * sizeof(int)) may return: a size below 0 converts
\* to a size_t no allocation can satisfy; any other request may fail too.
MallocOutcomes(size) == IF size <= 0 THEN {"null"} ELSE {"valid", "null"}

RangeInit ==
    /\ rvVariant \in {"malloc", "vector"}
    /\ rvStart = 0
    /\ rvEnd = 0
    /\ rvPc = "new"
    /\ rvSize = 0
    /\ rvPtr = ZeroedField
    /\ rvData = <<>>
    /\ rvI = 0
    /\ rvGet = NoGet
    /\ rvHeap = NoHeap
    /\ DistIdle
    /\ JuliaIdle
    /\ MCIdle
    /\ ReduceIdle
    /\ RectIdle
    /\ SumIdle

\* __cinit__(start, end) up to its loop: the check of the range and, in the
\* malloc variant, size = end - start and the allocation.
Cinit(start, end) ==
    /\ rvPc = "new"
    /\ rvStart' = start
    /\ rvEnd' = end
    /\ IF start >= end
       THEN /\ rvPc' = "raised"
            /\ UNCHANGED <<rvSize, rvPtr, rvData, rvI, rvHeap>>
       ELSE /\ rvPc' = "loop"
            /\ rvI' = ToUnsigned(start)
            /\ IF rvVariant = "malloc"
               THEN /\ rvSize' = ToSigned(end - start)
                    /\ rvHeap' = [rvHeap EXCEPT !.mallocs = @ + 1]
                    /\ \E p \in MallocOutcomes(ToSigned(end - start)) :
                          /\ rvPtr' = p
                          /\ rvData' = IF p = "valid"
                                       THEN [c \in 1..ToSigned(end - start) |-> Uninit]
                                       ELSE <<>>
               ELSE UNCHANGED <<rvSize, rvPtr, rvData, rvHeap>>
    /\ UNCHANGED <<rvVariant, rvGet, notRange>>

\* for i in range(start, end), i an unsigned int: the loop test compares
\* the unsigned loop variable with end converted to unsigned.
LoopContinues(i, end) == i < ToUnsigned(end)

\* One turn of __cinit__'s loop: self.data[i - start] = i (malloc variant),
\* self.data.push_back(i) (vector variant); or the end of the loop.
CinitStep ==
    /\ rvPc = "loop"
    /\ IF LoopContinues(rvI, rvEnd)
       THEN LET pos == (rvI - ToUnsigned(rvStart)) % UIntMod
            IN  /\ rvI' = rvI + 1
                /\ IF rvVariant = "vector"
                   THEN /\ rvData' = Append(rvData, Cell(ToSigned(rvI)))
                        /\ rvPc' = "loop"
                        /\ rvHeap' = rvHeap
                   ELSE /\ rvHeap' = [rvHeap EXCEPT !.wrote = TRUE, !.wpos = pos,
                                                    !.wptr = rvPtr]
                        /\ IF rvPtr = "valid" /\ pos < Len(rvData)
                           THEN /\ rvData' = [rvData EXCEPT ![pos + 1] = Cell(ToSigned(rvI))]
                                /\ rvPc' = "loop"
                           ELSE /\ rvData' = rvData
                                /\ rvPc' = "segfault"
       ELSE /\ rvPc' = "constructed"
            /\ UNCHANGED <<rvI, rvData, rvHeap>>
    /\ UNCHANGED <<rvVariant, rvStart, rvEnd, rvSize, rvPtr, rvGet, notRange>>

\* __getitem__'s test with the check i < 0 left out
OutOfRange_no_negative(i) ==
    IF rvVariant = "malloc"
    THEN i >= rvSize
    ELSE ToSizeT(i) >= Len(rvData)

\* __getitem__'s test of the index.  Malloc variant: i >= self.size or i < 0
\* on ints.  Vector variant: i >= self.data.size() or i < 0, where the first
\* comparison converts i to size_t.
OutOfRange(i) ==
    IF rvVariant = "malloc"
    THEN i >= rvSize \/ i < 0
    ELSE ToSizeT(i) >= Len(rvData) \/ i < 0

\* What reading self.data[i] gives: the cell's value; any int when the cell
\* was never written or lies outside the buffer.
ReadValues(i) ==
    IF i >= 0 /\ i < Len(rvData) /\ rvData[i + 1].init
    THEN {rvData[i + 1].val}
    ELSE IntRange

\* __getitem__(i)
GetItem(i) ==
    /\ rvPc = "constructed"
    /\ IF OutOfRange(i)
       THEN /\ rvGet' = [called |-> TRUE, idx |-> i, didRead |-> FALSE, pos |-> 0,
                         kind |-> IF rvVariant = "malloc" THEN "int" ELSE "None",
                         val |-> IF rvVariant = "malloc" THEN -1 ELSE 0]
            /\ rvPc' = rvPc
       ELSE IF rvVariant = "malloc" /\ rvPtr # "valid"
            THEN /\ rvGet' = [called |-> TRUE, idx |-> i, didRead |-> TRUE, pos |-> i,
                              kind |-> "none", val |-> 0]
                 /\ rvPc' = "segfault"
            ELSE /\ \E v \in ReadValues(i) :
                       rvGet' = [called |-> TRUE, idx |-> i, didRead |-> TRUE, pos |-> i,
                                 kind |-> "int", val |-> v]
                 /\ rvPc' = rvPc
    /\ UNCHANGED <<rvVariant, rvStart, rvEnd, rvSize, rvPtr, rvData, rvI, rvHeap,
                   notRange>>

\* __dealloc__ (malloc variant): free(self.data); the vector variant's
\* vector is destroyed with the object.  It also runs when __cinit__ raised.
Dealloc ==
    /\ rvPc \in {"constructed", "raised"}
    /\ rvPc' = "dead"
    /\ rvPtr' = IF rvPtr = "valid" THEN "freed" ELSE rvPtr
    /\ rvData' = <<>>
    /\ rvHeap' = IF rvVariant = "malloc"
                 THEN [rvHeap EXCEPT !.frees = @ + 1, !.freeArg = rvPtr]
                 ELSE rvHeap
    /\ UNCHANGED <<rvVariant, rvStart, rvEnd, rvSize, rvI, rvGet, notRange>>

RangeNext ==
    \/ \E start \in IntRange, end \in IntRange : Cinit(start, end)
    \/ CinitStep
    \/ \E i \in IntRange : GetItem(i)
    \/ Dealloc

SpecRange == RangeInit /\ [][RangeNext]_vars

(***************************************************************************)
(* Claims on CyRangeVector.                                                *)
(***************************************************************************)
\* The sentinel __getitem__ returns for an index out of range: -1 in the
\* malloc variant, None in the vector variant.
ReturnedSentinel ==
    IF rvVariant = "malloc"
    THEN rvGet.kind = "int" /\ rvGet.val = -1
    ELSE rvGet.kind = "None"

\* C4: on a constructed CyRangeVector, a __getitem__ call with an index
\* below 0 or at or above size reads nothing and returns the sentinel, and
\* every read a __getitem__ call makes is at a position 0..size-1.
C4_GetItemInBounds ==
    (rvGet.called /\ rvPc # "dead") =>
        /\ (rvGet.idx < 0 \/ rvGet.idx >= Size) =>
              (~rvGet.didRead /\ ReturnedSentinel)
        /\ rvGet.didRead => (0 <= rvGet.pos /\ rvGet.pos < Size)

\* C4 witness: a vector-backed CyRangeVector holding elements was indexed
\* below 0 and returned None.
C4_Witness ==
    /\ rvPc = "constructed"
    /\ rvVariant = "vector"
    /\ Len(rvData) > 1
    /\ rvGet.called /\ rvGet.idx < 0
    /\ rvGet.kind = "None"

\* C5 as stated: CyRangeVector(start, end) with start >= end raises with no
\* buffer allocated and no element written, and no constructed
\* CyRangeVector has size <= 0.
C5_EmptyRangeRejected ==
    /\ (rvPc # "new" /\ rvStart >= rvEnd) =>
          (rvPc \in {"raised", "dead"} /\ rvPtr = "null" /\ rvData = <<>>)
    /\ rvPc = "constructed" => Size > 0

\* C6 as stated: a constructed CyRangeVector(start, end), start < end, has
\* size end - start, and v[i] returns start + i for 0 <= i < end - start.
C6_RangeContents ==
    rvPc = "constructed" =>
        /\ Size = rvEnd - rvStart
        /\ (rvGet.called /\ 0 <= rvGet.idx /\ rvGet.idx < rvEnd - rvStart) =>
              (rvGet.kind = "int" /\ rvGet.val = rvStart + rvGet.idx)

(***************************************************************************)
(* The Julia-set kernels: julia_set_cython (sequential), julia_set_cython  *)
(* with prange(ny, nogil=True), and julia_set_cython_static with           *)
(* schedule='static', chunksize=1.  A row of the grid is one iteration of  *)
(* the outer loop; in the parallel variants the OpenMP runtime hands each  *)
(* iteration to one worker, and the variables assigned in the loop body    *)
(* (j, x, y, k) are private to the worker.                                 *)
(***************************************************************************)
\* radius2 = 4.0 in the cells that call the kernels
radius2 == 4

\* A C double: a finite value (the inputs are whole numbers, on which the
\* arithmetic of the kernel is exact) or a NaN.
Fin(v) == [nan |-> FALSE, v |-> v]

NaN == [nan |-> TRUE, v |-> 0]

FAdd(a, b) == IF a.nan \/ b.nan THEN NaN ELSE Fin(a.v + b.v)

FSub(a, b) == IF a.nan \/ b.nan THEN NaN ELSE Fin(a.v - b.v)

FMul(a, b) == IF a.nan \/ b.nan THEN NaN ELSE Fin(a.v * b.v)

\* every ordered comparison with a NaN is false
FLess(a, b) == ~a.nan /\ ~b.nan /\ a.v < b.v

FGeq(a, b) == ~a.nan /\ ~b.nan /\ a.v >= b.v

\* np.meshgrid of two ranges of step 1 that start at the same value
MeshX(rows, cols, ox) == [i \in 1..rows |-> [j \in 1..cols |-> Fin(ox + j - 1)]]

MeshY(rows, cols, oy) == [i \in 1..rows |-> [j \in 1..cols |-> Fin(oy + i - 1)]]

\* the grid g with a NaN in its first cell
WithNaN(g) == [g EXCEPT ![1][1] = NaN]

\* a grid holding v in every cell (np.zeros_like for v = 0)
Filled(rows, cols, v) == [i \in 1..rows |-> [j \in 1..cols |-> v]]

\* the inputs the kernels are run on
JuliaOffsets == {-1, 0}

JuliaParams == {[cx |-> Fin(-1), cy |-> Fin(0)], [cx |-> Fin(0), cy |-> Fin(1)]}

IterCaps == {-1, 0, MaxIter}

JuliaVariants == {"sequential", "prange", "static"}

\* X.shape[0] and X.shape[1]
GridRows == Len(jX)

GridCols == Len(jX[1])

\* The shapes of X: up to MaxNy rows of up to MaxNx columns, and a single
\* column of more rows than a C int counts.
JuliaShapes == ((1..MaxNy) \X (1..MaxNx)) \cup {<<IntMax + 1, 1>>}

\* ny = X.shape[0]; nx = X.shape[1], with cdef int nx, ny: the Py_ssize_t
\* extent is assigned to a C int, which keeps its low bits
ny == ToSigned(GridRows)

nx == ToSigned(GridCols)

\* The worker threads a call may run on: the sequential kernel has the
\* calling thread alone.
ThreadCounts(variant) == IF variant = "sequential" THEN {1} ELSE 1..MaxThreads

\* A worker outside any row iteration; wj, wx, wy, wk name the row iteration
\* that last assigned j, x, y, k (0: never assigned).
IdleWorker == [pc |-> "idle", i |-> 0, j |-> 0, x |-> Fin(0), y |-> Fin(0), k |-> 0,
               wj |-> 0, wx |-> 0, wy |-> 0, wk |-> 0]

JuliaInit ==
    /\ jVariant \in JuliaVariants
    /\ \E shape \in JuliaShapes, o \in JuliaOffsets :
        LET rows == shape[1]
            cols == shape[2]
        IN
          /\ jX \in {MeshX(rows, cols, o), WithNaN(MeshX(rows, cols, o))}
          /\ jY = MeshY(rows, cols, o)
          /\ julia = Filled(rows, cols, 0)
          /\ jWrites = Filled(rows, cols, 0)
          /\ jExec = [r \in 1..rows |-> 0]
          /\ jRowOwner = [r \in 1..rows |-> 0]
    /\ jC \in JuliaParams
    /\ jIterMax \in IterCaps
    /\ jThreads \in ThreadCounts(jVariant)
    /\ jW = [t \in 1..jThreads |-> IdleWorker]
    /\ jPhase = "running"
    /\ jRun = 1
    /\ jFirst = <<>>
    /\ jStale = FALSE
    /\ DistIdle
    /\ RangeIdle
    /\ MCIdle
    /\ ReduceIdle
    /\ RectIdle
    /\ SumIdle

\* An iteration of the row loop is started twice.
RowAvailable_again(r) == jExec[r] <= 1

\* Each iteration of the row loop is started once.
RowAvailable(r) == jExec[r] = 0

\* The rows the schedule lets worker t start next.  Sequential loop, and
\* schedule='static' with chunksize=1: the rows t, t + T, t + 2T, ... in
\* order.  prange without a schedule: which worker gets which row is left
\* to the OpenMP runtime.
Eligible(t, r) ==
    IF jVariant = "prange"
    THEN TRUE
    ELSE /\ (r - 1) % jThreads = t - 1
         /\ \A q \in 1..(r - 1) : (q - 1) % jThreads = t - 1 => jExec[q] >= 1

\* for i in prange(ny) / range(ny): worker t starts row r; for j in range(nx)
TakeRow(t, r) ==
    /\ jPhase = "running"
    /\ jW[t].pc = "idle"
    /\ RowAvailable(r)
    /\ Eligible(t, r)
    /\ jExec' = [jExec EXCEPT ![r] = @ + 1]
    /\ jRowOwner' = [jRowOwner EXCEPT ![r] = t]
    /\ jW' = [jW EXCEPT ![t] = [@ EXCEPT !.pc = "row", !.i = r, !.j = 1, !.wj = r]]
    /\ UNCHANGED <<jVariant, jX, jY, jC, jIterMax, julia, jThreads, jPhase, jRun, jFirst,
                   jWrites, jStale, notJulia>>

\* indices i, j (counted from 1) lie inside the shape of the array a
InShape(a, i, j) == 1 <= i /\ i <= Len(a) /\ 1 <= j /\ j <= Len(a[i])

\* What a read a[i, j] yields with boundscheck(False): the element, or, for
\* indices outside the shape, whatever lies at that address (any double) or
\* a segmentation fault.
ReadOutcomes(a, i, j) ==
    IF InShape(a, i, j)
    THEN {[fault |-> FALSE, val |-> a[i][j]]}
    ELSE {[fault |-> FALSE, val |-> Fin(0)], [fault |-> FALSE, val |-> NaN],
          [fault |-> TRUE, val |-> NaN]}

\* What a write a[i, j] = v does with boundscheck(False): it stores into the
\* array, or, for indices outside the shape, it overwrites memory that is
\* not part of the array or ends in a segmentation fault.
WriteOutcomes(a, i, j) ==
    IF InShape(a, i, j) THEN {"stored"} ELSE {"outside", "segfault"}

\* The pixel is loaded without k = 0.
Loaded_keeps_k(w, xv, yv) ==
    [w EXCEPT !.pc = "while",
              !.x = xv, !.wx = w.i,
              !.y = yv, !.wy = w.i]

\* x = X[i, j]; y = Y[i, j]; k = 0
Loaded(w, xv, yv) ==
    [w EXCEPT !.pc = "while",
              !.x = xv, !.wx = w.i,
              !.y = yv, !.wy = w.i,
              !.k = 0, !.wk = w.i]

LoadPixel(t) ==
    /\ jPhase = "running"
    /\ jW[t].pc = "row"
    /\ \E rx \in ReadOutcomes(jX, jW[t].i, jW[t].j), ry \in ReadOutcomes(jY, jW[t].i, jW[t].j) :
          IF rx.fault \/ ry.fault
          THEN jPhase' = "crashed" /\ jW' = jW
          ELSE jPhase' = jPhase /\ jW' = [jW EXCEPT ![t] = Loaded(jW[t], rx.val, ry.val)]
    /\ jStale' = (jStale \/ jW[t].wj # jW[t].i)
    /\ UNCHANGED <<jVariant, jX, jY, jC, jIterMax, julia, jThreads, jRun, jFirst,
                   jExec, jRowOwner, jWrites, notJulia>>

\* The two assignments made one after the other: y computed from the new x.
JuliaStep_sequential(x, y) ==
    LET x1 == FAdd(FSub(FMul(x, x), FMul(y, y)), jC.cx)
    IN  [x |-> x1, y |-> FAdd(FMul(FMul(Fin(2), x1), y), jC.cy)]

\* x, y = x * x - y * y + cx, 2.0 * x * y + cy
JuliaStep(x, y) ==
    [x |-> FAdd(FSub(FMul(x, x), FMul(y, y)), jC.cx),
     y |-> FAdd(FMul(FMul(Fin(2), x), y), jC.cy)]

\* while x * x + y * y < radius2 and k < iter_max
LoopTest(w) ==
    /\ FLess(FAdd(FMul(w.x, w.x), FMul(w.y, w.y)), Fin(radius2))
    /\ w.k < jIterMax

\* julia[i, j] += k
StoredValue_accumulate(old, k) == old + k

\* julia[i, j] = k
StoredValue(old, k) == k

\* One test of the while loop by worker t, followed by the loop body or, when
\* the test fails, by julia[i, j] = k and the step to the next pixel.
WhileStep(t) ==
    LET w == jW[t]
    IN  /\ jPhase = "running"
        /\ w.pc = "while"
        /\ jStale' = (jStale \/ w.wx # w.i \/ w.wy # w.i \/ w.wk # w.i \/ w.wj # w.i)
        /\ IF LoopTest(w)
           THEN /\ jW' = [jW EXCEPT ![t] = [w EXCEPT !.x = JuliaStep(w.x, w.y).x,
                                                       !.y = JuliaStep(w.x, w.y).y,
                                                       !.k = w.k + 1]]
                /\ UNCHANGED <<julia, jWrites>>
                /\ jPhase' = jPhase
           ELSE /\ \E o \in WriteOutcomes(julia, w.i, w.j) :
                      /\ julia' = IF o = "stored"
                                  THEN [julia EXCEPT ![w.i][w.j] = StoredValue(@, w.k)]
                                  ELSE julia
                      /\ jPhase' = IF o = "segfault" THEN "crashed" ELSE jPhase
                /\ jWrites' = [jWrites EXCEPT ![w.i][w.j] = @ + 1]
                /\ jW' = [jW EXCEPT ![t] = IF w.j = nx
                                           THEN [w EXCEPT !.pc = "idle"]
                                           ELSE [w EXCEPT !.pc = "row", !.j = w.j + 1]]
        /\ UNCHANGED <<jVariant, jX, jY, jC, jIterMax, jThreads, jRun, jFirst,
                       jExec, jRowOwner, notJulia>>

\* The end of the row loop (the barrier that ends the prange): the call
\* returns.
Return ==
    /\ jPhase = "running"
    /\ \A r \in 1..ny : jExec[r] >= 1
    /\ \A t \in 1..jThreads : jW[t].pc = "idle"
    /\ jPhase' = "returned"
    /\ UNCHANGED <<jVariant, jX, jY, jC, jIterMax, julia, jThreads, jRun, jFirst,
                   jExec, jRowOwner, jW, jWrites, jStale, notJulia>>

\* The same kernel is called again on the same X, Y, cx, cy, iter_max and
\* radius2: the output array is the one the first call filled, or another
\* array with other contents; the number of workers may differ.
Rerun ==
    /\ jPhase = "returned"
    /\ jRun = 1
    /\ jRun' = 2
    /\ jFirst' = julia
    /\ julia' \in {julia, Filled(GridRows, GridCols, -1)}
    /\ jThreads' \in ThreadCounts(jVariant)
    /\ jW' = [t \in 1..jThreads' |-> IdleWorker]
    /\ jExec' = [r \in 1..GridRows |-> 0]
    /\ jRowOwner' = [r \in 1..GridRows |-> 0]
    /\ jWrites' = Filled(GridRows, GridCols, 0)
    /\ jPhase' = "running"
    /\ UNCHANGED <<jVariant, jX, jY, jC, jIterMax, jStale, notJulia>>

JuliaNext ==
    \/ \E t \in 1..jThreads : \E r \in 1..ny : TakeRow(t, r)
    \/ \E t \in 1..jThreads : LoadPixel(t)
    \/ \E t \in 1..jThreads : WhileStep(t)
    \/ Return
    \/ Rerun

SpecJulia == JuliaInit /\ [][JuliaNext]_vars

(***************************************************************************)
(* Claims about the Julia-set kernels                                      *)
(***************************************************************************)
\* the n-th iterate of (x, y) <- (x*x - y*y + cx, 2*x*y + cy) from (x, y),
\* both coordinates computed from the previous iterate
RECURSIVE Iterate(_, _, _)
Iterate(x, y, n) ==
    IF n = 0
    THEN [x |-> x, y |-> y]
    ELSE LET p == Iterate(x, y, n - 1)
         IN  [x |-> FAdd(FSub(FMul(p.x, p.x), FMul(p.y, p.y)), jC.cx),
              y |-> FAdd(FMul(FMul(Fin(2), p.x), p.y), jC.cy)]

Norm2(p) == FAdd(FMul(p.x, p.x), FMul(p.y, p.y))

\* the smallest member of S, or cap when S is empty
FirstOr(S, cap) == IF S = {} THEN cap ELSE CHOOSE n \in S : \A m \in S : n <= m

\* the smallest k below the cap whose iterate satisfies x*x + y*y >= radius2
EscapeCount(i, j) ==
    FirstOr({n \in 0..(jIterMax - 1) :
                FGeq(Norm2(Iterate(jX[i][j], jY[i][j], n)), Fin(radius2))}, jIterMax)

\* the smallest k below the cap whose iterate does not satisfy
\* x*x + y*y < radius2
ExitCount(i, j) ==
    FirstOr({n \in 0..(jIterMax - 1) :
                ~FLess(Norm2(Iterate(jX[i][j], jY[i][j], n)), Fin(radius2))}, jIterMax)

\* the pixels of the grid
Pixels == (1..GridRows) \X (1..GridCols)

\* the pixels the loops range over: 0 <= i < ny, 0 <= j < nx
LoopPixels == {p \in Pixels : p[1] <= ny /\ p[2] <= nx}

\* the extents of the grid fit the C ints ny and nx
ExtentsFit == GridRows <= IntMax /\ GridCols <= IntMax

\* C7 as stated: after a call with iter_max >= 0 returns, every julia[i, j] is
\* the smallest k whose iterate satisfies x*x + y*y >= radius2, or iter_max
\* when none below the cap does, and 0 <= julia[i, j] <= iter_max.
C7_EscapeCount ==
    (jPhase = "returned" /\ jIterMax >= 0) =>
        \A p \in Pixels :
            /\ julia[p[1]][p[2]] = EscapeCount(p[1], p[2])
            /\ 0 <= julia[p[1]][p[2]]
            /\ julia[p[1]][p[2]] <= jIterMax

\* C7 for grids whose extents fit a C int: after a call with iter_max >= 0
\* returns, every julia[i, j] is the smallest k whose iterate fails the test
\* x*x + y*y < radius2 (it has escaped, or it is a NaN), or iter_max when
\* none below the cap does, and 0 <= julia[i, j] <= iter_max.
C7_ExitCount ==
    (jPhase = "returned" /\ jIterMax >= 0 /\ ExtentsFit) =>
        \A p \in Pixels :
            /\ julia[p[1]][p[2]] = ExitCount(p[1], p[2])
            /\ 0 <= julia[p[1]][p[2]]
            /\ julia[p[1]][p[2]] <= jIterMax

\* A parallel call has returned a grid holding a pixel that started as a NaN,
\* a pixel that escaped after some iterations and a pixel that reached the cap.
C7_Witness ==
    /\ jPhase = "returned"
    /\ jVariant = "prange"
    /\ jThreads = MaxThreads
    /\ jIterMax = MaxIter
    /\ jX[1][1].nan
    /\ \E p \in Pixels : 0 < julia[p[1]][p[2]] /\ julia[p[1]][p[2]] < jIterMax
    /\ \E p \in Pixels : julia[p[1]][p[2]] = jIterMax /\ ~jX[p[1]][p[2]].nan

\* C8: a second run of the same variant on the same X, Y, cx, cy, iter_max and
\* radius2 leaves the iteration counts of the first run in the output grid,
\* whatever the grid held before the run and whichever worker ran which row.
C8_Deterministic ==
    (jRun = 2 /\ jPhase = "returned") => julia = jFirst

\* C8 for grids whose extents fit a C int.
C8_DeterministicWithinInt ==
    (jRun = 2 /\ jPhase = "returned" /\ ExtentsFit) => julia = jFirst

\* A second parallel run has returned, its last row run by the second worker
\* and its first row by the first, with a non-zero count in the grid.
C8_Witness ==
    /\ jRun = 2
    /\ jPhase = "returned"
    /\ jVariant = "prange"
    /\ ny = MaxNy
    /\ jRowOwner[1] = 2
    /\ jRowOwner[ny] = 1
    /\ julia = jFirst
    /\ \E p \in Pixels : julia[p[1]][p[2]] > 0

RowIndependence ==
    jVariant \in {"prange", "static"} =>
        /\ \A r \in 1..ny : jExec[r] <= 1
        /\ \A p \in LoopPixels : jWrites[p[1]][p[2]] <= 1
        /\ \A t, u \in 1..jThreads :
              (t # u /\ jW[t].pc # "idle" /\ jW[u].pc # "idle") => jW[t].i # jW[u].i
        /\ ~jStale
        /\ jPhase = "returned" =>
              /\ \A r \in 1..ny : jExec[r] = 1 /\ jRowOwner[r] \in 1..jThreads
              /\ \A p \in LoopPixels : jWrites[p[1]][p[2]] = 1

\* C9: in the parallel kernels, for every number of workers, each row is
\* executed once by one worker, each cell of julia is written once, no two
\* workers are in the same row, no row reads j, x, y or k as assigned by
\* another row, and no step changes X or Y.
C9_RowsIndependent ==
    /\ []RowIndependence
    /\ [][jX' = jX /\ jY' = jY]_vars

\* A parallel call has returned after two workers ran different rows.
C9_Witness ==
    /\ jPhase = "returned"
    /\ jVariant \in {"prange", "static"}
    /\ ny = MaxNy
    /\ jRowOwner[1] # jRowOwner[ny]
    /\ \A p \in Pixels : jWrites[p[1]][p[2]] = 1

(***************************************************************************)
(* The Monte Carlo estimators of pi: pi_mc in pure Python ("python"),      *)
(* compiled unchanged by Cython ("cython"), with cdef int in_circle, i and *)
(* an untyped n ("cdef"), with int n as well ("intn"), pi_mc_inferred      *)
(* ("inferred") and pi_mc_random ("random").                               *)
(***************************************************************************)
MCVariants == {"python", "cython", "cdef", "intn", "inferred", "random"}

\* The estimators whose loop counter i is a C int.
IntCounter == {"cdef", "intn"}

\* 1.0, in the unit the samples are counted in (tenths)
Unit == 10

\* The values random(), my_rand() and uni(mt) return, in tenths:
\* (6, 8) lies on the circle, (8, 8) outside.
Samples == {0, 6, 8}

\* The arguments the estimators are called with.
MCArgs == -1..(IntMax + 2)

MCInit ==
    /\ mcVariant \in MCVariants
    /\ mcN \in MCArgs
    /\ mcPc = "start"
    /\ mcBound = 0
    /\ mcI = 0
    /\ mcCount = 0
    /\ mcDraws = 0
    /\ mcHits = 0
    /\ mcResult = NoResult
    /\ mcRef = RefIdle
    /\ DistIdle
    /\ RangeIdle
    /\ JuliaIdle
    /\ ReduceIdle
    /\ RectIdle
    /\ SumIdle

\* def pi_mc(int n): a Python int outside the range of a C int is refused at
\* the call with an OverflowError.
ArgumentFits(variant, n) == variant = "intn" => n \in IntRange

\* The bound of "for i in range(n)".  With a C int counter and an untyped n,
\* n is converted to a C long and the C loop compares the int counter either
\* with that long or with its conversion to int, as the compiler generates it.
LoopBounds(variant, n) ==
    IF variant = "cdef" /\ n \notin IntRange
    THEN {n, ToSigned(ToUnsigned(n))}
    ELSE {n}

\* the call: the argument is converted, in_circle = 0, the loop is set up
MCCall ==
    /\ mcPc = "start"
    /\ IF ArgumentFits(mcVariant, mcN)
       THEN /\ mcPc' = "loop"
            /\ mcBound' \in LoopBounds(mcVariant, mcN)
       ELSE /\ mcPc' = "raised"
            /\ mcBound' = mcBound
    /\ UNCHANGED <<mcVariant, mcN, mcI, mcCount, mcDraws, mcHits, mcResult, mcRef, notMC>>

\* The test with < in place of <=.
InCircle_strict(x, y) == x * x + y * y < Unit * Unit

\* if x ** 2 + y ** 2 <= 1.0 / if x * x + y * y <= 1.0
InCircle(x, y) == x * x + y * y <= Unit * Unit

\* The step of an int counter past INT_MAX is undefined.
CounterOverflows(variant, i) == variant \in IntCounter /\ i = IntMax

\* One iteration of the loop: a pair is drawn, tested and counted, and the
\* counter steps.
LoopBody(x, y) ==
    /\ mcPc = "loop"
    /\ mcI < mcBound
    /\ mcDraws' = mcDraws + 1
    /\ mcCount' = IF InCircle(x, y) THEN mcCount + 1 ELSE mcCount
    /\ mcHits' = IF x * x + y * y > Unit * Unit THEN mcHits ELSE mcHits + 1
    /\ IF CounterOverflows(mcVariant, mcI)
       THEN mcPc' = "undefined" /\ mcI' = mcI
       ELSE mcPc' = mcPc /\ mcI' = mcI + 1
    /\ UNCHANGED <<mcVariant, mcN, mcBound, mcResult>>

MCIterate(x, y) ==
    /\ LoopBody(x, y)
    /\ UNCHANGED <<mcRef, notMC>>

\* return 4.0 * in_circle / n: a ZeroDivisionError when n is 0
MCReturn ==
    /\ mcPc = "loop"
    /\ ~(mcI < mcBound)
    /\ IF mcN = 0
       THEN mcPc' = "raised" /\ mcResult' = mcResult
       ELSE mcPc' = "returned" /\ mcResult' = [num |-> 4 * mcCount, den |-> mcN]
    /\ UNCHANGED <<mcVariant, mcN, mcBound, mcI, mcCount, mcDraws, mcHits, mcRef, notMC>>

MCNext ==
    \/ MCCall
    \/ \E x \in Samples, y \in Samples : MCIterate(x, y)
    \/ MCReturn

SpecMC == MCInit /\ [][MCNext]_vars

(***************************************************************************)
(* Claims about the Monte Carlo estimators                                 *)
(***************************************************************************)
\* a call that draws n pairs, counts those inside or on the circle and
\* returns 4 * count / n
EstimatorContract ==
    /\ mcPc \notin {"raised", "undefined"}
    /\ mcDraws <= mcN
    /\ mcPc = "returned" =>
          /\ mcDraws = mcN
          /\ mcCount = mcHits
          /\ 0 <= mcCount
          /\ mcCount <= mcN
          /\ mcResult = [num |-> 4 * mcCount, den |-> mcN]
          /\ 0 <= mcResult.num
          /\ mcResult.num <= 4 * mcResult.den

\* C10 as stated: for every N >= 1 each estimator draws exactly N pairs,
\* counts the pairs with x*x + y*y <= 1 and returns 4 * count / N, so that
\* 0 <= count <= N and the result lies between 0 and 4.
C10_EveryN ==
    mcN >= 1 => EstimatorContract

\* C10 within the range of a C int: the same holds for every N >= 1 that the
\* estimators with a C int counter can represent, and for every N >= 1 in the
\* estimators that keep the counter a Python object.
C10_WithinIntRange ==
    (mcN >= 1 /\ (mcVariant \in IntCounter => mcN <= IntMax)) => EstimatorContract

\* The estimator with cdef int counters has returned from a call with
\* N = INT_MAX that counted some of the pairs and not others.
C10_Witness ==
    /\ mcPc = "returned"
    /\ mcVariant = "cdef"
    /\ mcN = IntMax
    /\ 0 < mcCount
    /\ mcCount < mcN

\* C11 as stated: a call of an estimator with N = 0 or N < 0 ends in an error
\* and never returns an estimate.
C11_NonPositiveRejected ==
    mcN <= 0 => mcPc # "returned"

\* What the estimators do with a non-positive N: N = 0 ends in the
\* ZeroDivisionError of the final division, after no pair was drawn; N < 0
\* is never refused.
C11_OnlyZeroRaises ==
    /\ (mcN <= 0 => mcDraws = 0)
    /\ (mcN = 0 => mcPc \in {"start", "loop", "raised"})
    /\ (mcN < 0 => mcPc \in {"start", "loop", "returned"})

\* An estimator has returned an estimate for a negative N.
C11_Witness ==
    /\ mcN < 0
    /\ mcPc = "returned"
    /\ mcResult = [num |-> 0, den |-> mcN]

(***************************************************************************)
(* An optimized estimator and the pure-Python pi_mc fed the same sequence  *)
(* of samples: the k-th pair drawn goes to the k-th iteration of each of   *)
(* the two runs that gets that far.                                        *)
(***************************************************************************)
Optimized == MCVariants \ {"python"}

PairInit ==
    /\ mcVariant \in Optimized
    /\ mcN \in MCArgs
    /\ mcPc = "start"
    /\ mcBound = 0
    /\ mcI = 0
    /\ mcCount = 0
    /\ mcDraws = 0
    /\ mcHits = 0
    /\ mcResult = NoResult
    /\ mcRef = [pc |-> "loop", i |-> 0, count |-> 0, result |-> NoResult]
    /\ DistIdle
    /\ RangeIdle
    /\ JuliaIdle
    /\ ReduceIdle
    /\ RectIdle
    /\ SumIdle

\* pure Python: if x ** 2 + y ** 2 <= 1.0: in_circle += 1, with i and
\* in_circle Python ints
RefBody(ref, x, y) ==
    [ref EXCEPT !.i = @ + 1,
                !.count = IF x ^ 2 + y ^ 2 <= Unit ^ 2 THEN @ + 1 ELSE @]

\* the optimized estimator is called
PairCall ==
    /\ mcRef.pc # "idle"
    /\ MCCall

\* The next pair (x, y) of the sequence is drawn; each run that has an
\* iteration left for it executes that iteration on it.
PairDraw(x, y) ==
    /\ mcPc # "start"
    /\ mcRef.pc # "idle"
    /\ (mcPc = "loop" /\ mcI < mcBound) \/ (mcRef.pc = "loop" /\ mcRef.i < mcN)
    /\ (mcPc = "loop" /\ mcI < mcBound /\ mcRef.pc = "loop") => mcI = mcRef.i
    /\ IF mcPc = "loop" /\ mcI < mcBound
       THEN LoopBody(x, y)
       ELSE UNCHANGED mcVars
    /\ IF mcRef.pc = "loop" /\ mcRef.i < mcN
       THEN mcRef' = RefBody(mcRef, x, y)
       ELSE mcRef' = mcRef
    /\ UNCHANGED notMC

\* the optimized estimator returns
PairReturn ==
    /\ mcRef.pc # "idle"
    /\ MCReturn

\* pure Python: return 4.0 * in_circle / n
RefReturn ==
    /\ mcRef.pc = "loop"
    /\ ~(mcRef.i < mcN)
    /\ mcRef' = IF mcN = 0
                THEN [mcRef EXCEPT !.pc = "raised"]
                ELSE [mcRef EXCEPT !.pc = "returned",
                                   !.result = [num |-> 4 * mcRef.count, den |-> mcN]]
    /\ UNCHANGED <<mcVars, notMC>>

PairNext ==
    \/ PairCall
    \/ \E x \in Samples, y \in Samples : PairDraw(x, y)
    \/ PairReturn
    \/ RefReturn

SpecPair == PairInit /\ [][PairNext]_vars

\* the optimized estimator returns, and returns what pure Python returns
SameAsPython ==
    /\ mcPc \notin {"raised", "undefined"}
    /\ (mcPc = "returned" /\ mcRef.pc = "returned") => mcResult = mcRef.result
    /\ mcRef.pc = "returned" => (mcPc \in {"loop", "returned"} /\ mcDraws = mcRef.i)

\* C12 as stated: fed the same samples, every optimized estimator returns the
\* value the pure-Python pi_mc returns, for every N >= 1.
C12_SameAsPython ==
    mcN >= 1 => SameAsPython

\* C12 within the range of a C int: the same for every N >= 1 that the
\* estimators with a C int counter can represent, and for every N >= 1 in the
\* other optimized estimators.
C12_WithinIntRange ==
    (mcN >= 1 /\ (mcVariant \in IntCounter => mcN <= IntMax)) => SameAsPython

\* The estimator declared with int n and the pure-Python run have returned the
\* same value for N = INT_MAX, some pairs counted and some not.
C12_Witness ==
    /\ mcVariant = "intn"
    /\ mcN = IntMax
    /\ mcPc = "returned"
    /\ mcRef.pc = "returned"
    /\ mcResult = mcRef.result
    /\ 0 < mcRef.count
    /\ mcRef.count < mcN

(***************************************************************************)
(* The loops of euclidean_numba1 and cityblock_numba1, one iteration of    *)
(* the loop over k at a time.  Both functions are jitted with              *)
(* nopython=True and without parallel=True, where numba.prange is range:   *)
(* the iterations run one after the other on one thread.  The model lets   *)
(* them run in any order, the ascending one included.                      *)
(***************************************************************************)
ReduceKernels == {"euclidean_numba1", "cityblock_numba1"}

\* a cell of np.empty before it is written
Unwritten == "unwritten"

\* dist_matrix = np.zeros((num_samples, num_samples)) in euclidean_numba1,
\* np.empty((num_samples, num_samples)) in cityblock_numba1
NewDistMatrix(kernel, num_samples) ==
    [i \in 1..num_samples |->
        [j \in 1..num_samples |-> IF kernel = "euclidean_numba1" THEN 0 ELSE Unwritten]]

\* x and y of one shape: every row index of x is a row index of y
ReduceInit ==
    /\ \E n \in 1..MaxCells, m \in 1..MaxCells :
          /\ n * m <= MaxCells
          /\ dX \in Mats(n, m)
          /\ dY \in Mats(n, m)
    /\ dKernel = "none"
    /\ dOut = [kind |-> "none"]
    /\ rdKernel \in ReduceKernels
    /\ rdPc = "pair"
    /\ rdI = 1
    /\ rdJ = 1
    /\ rdDone = {}
    /\ rdR = 0
    /\ rdM = NewDistMatrix(rdKernel, Len(dX))
    /\ RangeIdle
    /\ JuliaIdle
    /\ MCIdle
    /\ RectIdle
    /\ SumIdle

\* r keeps the value the previous pair left.
FreshR_carried(r) == r

\* r = 0.0
FreshR(r) == 0

\* (x[i][k] - y[j][k])**2, np.abs(x[i][k] - y[j][k])
Term(kernel, i, j, k) ==
    IF kernel = "euclidean_numba1"
    THEN (dX[i][k] - dY[j][k]) * (dX[i][k] - dY[j][k])
    ELSE Abs(dX[i][k] - dY[j][k])

\* r = 0.0 and the entry of the loop over k
StartPair ==
    /\ rdPc = "pair"
    /\ rdR' = FreshR(rdR)
    /\ rdDone' = {}
    /\ rdPc' = "feat"
    /\ UNCHANGED <<rdKernel, rdI, rdJ, rdM, notReduce>>

\* one iteration of for k in numba.prange(num_feat): r += term
Accumulate(k) ==
    /\ rdPc = "feat"
    /\ k \in (1..NumFeat) \ rdDone
    /\ rdR' = rdR + Term(rdKernel, rdI, rdJ, k)
    /\ rdDone' = rdDone \cup {k}
    /\ UNCHANGED <<rdKernel, rdPc, rdI, rdJ, rdM, notReduce>>

\* dist_matrix[i][j] = r, and the step to the next pair or the return
StorePair ==
    /\ rdPc = "feat"
    /\ rdDone = 1..NumFeat
    /\ rdM' = [rdM EXCEPT ![rdI][rdJ] = rdR]
    /\ IF rdJ < Len(dX)
       THEN rdJ' = rdJ + 1 /\ rdI' = rdI /\ rdPc' = "pair"
       ELSE IF rdI < Len(dX)
            THEN rdJ' = 1 /\ rdI' = rdI + 1 /\ rdPc' = "pair"
            ELSE rdJ' = rdJ /\ rdI' = rdI /\ rdPc' = "returned"
    /\ UNCHANGED <<rdKernel, rdDone, rdR, notReduce>>

ReduceNext ==
    \/ StartPair
    \/ \E k \in 1..MaxCells : Accumulate(k)
    \/ StorePair

SpecReduce == ReduceInit /\ [][ReduceNext]_vars

\* the sum of the terms of pair (i, j) over the values of k in S
RECURSIVE TermSum(_, _, _, _)
TermSum(kernel, i, j, S) ==
    IF S = {} THEN 0
    ELSE LET k == CHOOSE q \in S : TRUE
         IN  Term(kernel, i, j, k) + TermSum(kernel, i, j, S \ {k})

\* the pairs whose entry has been stored
Stored(i, j) ==
    \/ rdPc = "returned"
    \/ i < rdI
    \/ (i = rdI /\ j < rdJ)

\* C13: in whatever order the iterations over k run, r holds the sum of the
\* terms of the iterations that have run for the current pair and of nothing
\* else, each iteration runs once, and every entry stored in dist_matrix is
\* the sum of all num_feat terms of its pair.
C13_ReductionSum ==
    /\ rdPc = "feat" => rdR = TermSum(rdKernel, rdI, rdJ, rdDone)
    /\ \A i \in 1..Len(dX), j \in 1..Len(dX) :
          Stored(i, j) => rdM[i][j] = TermSum(rdKernel, i, j, 1..NumFeat)

\* The last iteration over k has run before the others, in a pair that
\* follows a pair with a non-zero sum.
C13_Witness ==
    /\ rdPc = "feat"
    /\ NumFeat >= 2
    /\ rdDone = {NumFeat}
    /\ rdR > 0
    /\ rdI = 1
    /\ rdJ = 2
    /\ rdM[1][1] > 0

(***************************************************************************)
(* CyRectangle and CyRectangles.  Lengths are in tenths, areas in          *)
(* hundredths.                                                             *)
(***************************************************************************)
\* the values random() returns for the sides of a rectangle
Sides == {6, 8}

\* the arguments CyRectangles is constructed with; the last one does not fit
\* the int n of __cinit__
RectArgs == 0..(IntMax + 1)

\* the calls of total_area() followed on one object
MaxCalls == 2

RectInit ==
    /\ rcN \in RectArgs
    /\ rcPc = "new"
    /\ rcI = 0
    /\ rcList = <<>>
    /\ rcCalls = <<>>
    /\ DistIdle
    /\ RangeIdle
    /\ JuliaIdle
    /\ MCIdle
    /\ ReduceIdle
    /\ SumIdle

\* CyRectangle.__cinit__(self, x, y): self.x = x; self.y = y
CyRectangle(x, y) == [x |-> x, y |-> y]

\* the area taken as x * x
area_square(rect) == rect.x * rect.x

\* CyRectangle.area: return self.x * self.y
area(rect) == rect.x * rect.y

\* CyRectangles.__cinit__(self, int n): the conversion of n, which raises
\* OverflowError outside the range of a C int;  self.rectangles = []
RectCinit ==
    /\ rcPc = "new"
    /\ rcList' = <<>>
    /\ rcI' = 0
    /\ rcPc' = IF rcN \in IntRange THEN "loop" ELSE "raised"
    /\ UNCHANGED <<rcN, rcCalls, notRect>>

\* for i in range(n), i an unsigned int:
\* self.rectangles.append(CyRectangle(random(), random()))
RectAppend(x, y) ==
    /\ rcPc = "loop"
    /\ LoopContinues(rcI, rcN)
    /\ rcList' = Append(rcList, CyRectangle(x, y))
    /\ rcI' = rcI + 1
    /\ UNCHANGED <<rcN, rcPc, rcCalls, notRect>>

\* the end of the loop: __cinit__ returns
RectConstructed ==
    /\ rcPc = "loop"
    /\ ~LoopContinues(rcI, rcN)
    /\ rcPc' = "constructed"
    /\ UNCHANGED <<rcN, rcI, rcList, rcCalls, notRect>>

RECURSIVE AreaLoop(_, _)
\* area = 0.0; for rect in self.rectangles: area += rect.area()
\* (the first k rectangles)
AreaLoop(rects, k) ==
    IF k = 0 THEN 0 ELSE AreaLoop(rects, k - 1) + area(rects[k])

\* CyRectangles.total_area
total_area(rects) == AreaLoop(rects, Len(rects))

\* a call of total_area() on the constructed object
TotalArea ==
    /\ rcPc = "constructed"
    /\ Len(rcCalls) < MaxCalls
    /\ rcCalls' = Append(rcCalls, total_area(rcList))
    /\ UNCHANGED <<rcN, rcPc, rcI, rcList, notRect>>

RectNext ==
    \/ RectCinit
    \/ \E x \in Sides, y \in Sides : RectAppend(x, y)
    \/ RectConstructed
    \/ TotalArea

SpecRect == RectInit /\ [][RectNext]_vars

\* the sum of x * y over the rectangles at the positions in S
RECURSIVE ProductSum(_, _)
ProductSum(rects, S) ==
    IF S = {} THEN 0
    ELSE LET k == CHOOSE q \in S : TRUE
         IN  rects[k].x * rects[k].y + ProductSum(rects, S \ {k})

RectContract ==
    rcPc = "constructed" =>
        /\ rcN >= 0
        /\ Len(rcList) = rcN
        /\ \A c \in 1..Len(rcCalls) : rcCalls[c] = ProductSum(rcList, 1..rcN)
        /\ \A c, e \in 1..Len(rcCalls) : rcCalls[c] = rcCalls[e]

\* C14: a constructed CyRectangles(n), n >= 0, holds n rectangles; every
\* total_area() returns the sum of x * y over them, each counted once; no
\* call of total_area() changes the list, and consecutive calls return the
\* same value.
C14_RectanglesTotalArea ==
    /\ []RectContract
    /\ [][rcPc = "constructed" => rcList' = rcList]_vars

\* total_area() was called twice on a CyRectangles(INT_MAX) that holds
\* rectangles of different areas.
C14_Witness ==
    /\ rcPc = "constructed"
    /\ rcN = IntMax
    /\ Len(rcCalls) = MaxCalls
    /\ \E a, b \in 1..Len(rcList) : area(rcList[a]) # area(rcList[b])
    /\ rcCalls[1] = rcCalls[2]

(***************************************************************************)
(* my_sum and my_sum2d, one turn of their loops at a time.                 *)
(***************************************************************************)
SumFns == {"my_sum", "my_sum2d", "my_sum2d_unchecked"}

\* the values of the elements of x
SumVals == {1, 2}

\* the largest number of elements of x: above the range of a C int
MaxElems == IntMax + 2

SumInit ==
    /\ smFn \in SumFns
    /\ smRows \in 0..MaxElems
    /\ smCols \in IF smFn = "my_sum" THEN {1} ELSE 0..MaxElems
    /\ smRows * smCols <= MaxElems
    /\ smX \in [1..(smRows * smCols) -> SumVals]
    /\ smPc = "start"
    /\ smN = 0
    /\ smColumns = 0
    /\ smI = 0
    /\ smJ = 0
    /\ smS = 0
    /\ smReads = [e \in 1..(smRows * smCols) |-> 0]
    /\ smBad = FALSE
    /\ DistIdle
    /\ RangeIdle
    /\ JuliaIdle
    /\ MCIdle
    /\ ReduceIdle
    /\ RectIdle

\* cdef int n = x.shape[0]: the Py_ssize_t extent is assigned to a C int,
\* which keeps its low bits
ShapeToInt(extent) == ToSigned(extent)

\* cdef int i, n = x.shape[0] / rows = x.shape[0], columns = x.shape[1];
\* cdef double s = 0.0
SumCall ==
    /\ smPc = "start"
    /\ smN' = ShapeToInt(smRows)
    /\ smColumns' = IF smFn = "my_sum" THEN 1 ELSE ShapeToInt(smCols)
    /\ smI' = 0
    /\ smJ' = 0
    /\ smS' = 0
    /\ smPc' = "loop"
    /\ UNCHANGED <<smFn, smRows, smCols, smX, smReads, smBad, notSum>>

\* the position of x[i, j] (x[i] when the array has one column)
Elem(i, j) == i * smCols + j + 1

InBounds(i, j) == 0 <= i /\ i < smRows /\ 0 <= j /\ j < smCols

\* my_sum: for i in range(n): s += x[i]
\* my_sum2d: for j in range(columns): s += x[i, j]
SumRead ==
    /\ smPc = "loop"
    /\ smI < smN
    /\ smJ < smColumns
    /\ smBad' = (smBad \/ ~InBounds(smI, smJ))
    /\ smS' = smS + smX[Elem(smI, smJ)]
    /\ smReads' = [smReads EXCEPT ![Elem(smI, smJ)] = @ + 1]
    /\ IF smFn = "my_sum"
       THEN smI' = smI + 1 /\ smJ' = smJ
       ELSE smI' = smI /\ smJ' = smJ + 1
    /\ UNCHANGED <<smFn, smRows, smCols, smX, smPc, smN, smColumns, notSum>>

\* my_sum2d: the end of the loop over j, and the next i
SumNextRow ==
    /\ smPc = "loop"
    /\ smFn # "my_sum"
    /\ smI < smN
    /\ ~(smJ < smColumns)
    /\ smI' = smI + 1
    /\ smJ' = 0
    /\ UNCHANGED <<smFn, smRows, smCols, smX, smPc, smN, smColumns, smS, smReads, smBad,
                   notSum>>

\* return s
SumReturn ==
    /\ smPc = "loop"
    /\ ~(smI < smN)
    /\ smPc' = "returned"
    /\ UNCHANGED <<smFn, smRows, smCols, smX, smN, smColumns, smI, smJ, smS, smReads, smBad,
                   notSum>>

SumNext ==
    \/ SumCall
    \/ SumRead
    \/ SumNextRow
    \/ SumReturn

SpecSum == SumInit /\ [][SumNext]_vars

\* x.sum(): the sum of the elements at the positions in S
RECURSIVE ElemSum(_)
ElemSum(S) ==
    IF S = {} THEN 0
    ELSE LET e == CHOOSE q \in S : TRUE IN smX[e] + ElemSum(S \ {e})

SumContract ==
    /\ ~smBad
    /\ smPc = "returned" =>
          /\ smS = ElemSum(1..(smRows * smCols))
          /\ \A e \in 1..(smRows * smCols) : smReads[e] = 1

\* C15 as stated: my_sum and both variants of my_sum2d return the sum of all
\* elements of x, each element read once, and use only indices
\* 0 <= i < rows, 0 <= j < columns.
C15_SumOfAllElements ==
    SumContract

\* C15 for arrays whose extents fit a C int.
C15_ExtentsWithinInt ==
    (smRows <= IntMax /\ smCols <= IntMax) => SumContract

\* my_sum2d without bounds checks has returned the sum of an array of
\* several rows and columns holding different values.
C15_Witness ==
    /\ smFn = "my_sum2d_unchecked"
    /\ smPc = "returned"
    /\ smRows >= 2
    /\ smCols >= 2
    /\ \E e \in 1..(smRows * smCols) : smX[e] # smX[1]
    /\ smS = ElemSum(1..(smRows * smCols))

(***************************************************************************)
(* The Julia kernels called with any three arrays: Y and julia need not    *)
(* have the shape of X (the kernels check no shape and are compiled with   *)
(* boundscheck(False)).                                                    *)
(***************************************************************************)
\* the array g without its last row
DropLastRow(g) == SubSeq(g, 1, Len(g) - 1)

\* the arrays of the shape of g, or of one row less, a caller may pass
ShapeChoices(g) == {g, DropLastRow(g)}

SameShapes ==
    /\ Len(jY) = GridRows
    /\ Len(julia) = GridRows

JuliaAnyInit ==
    /\ jVariant \in JuliaVariants
    /\ \E shape \in JuliaShapes, o \in JuliaOffsets :
        LET rows == shape[1]
            cols == shape[2]
        IN
          /\ jX = MeshX(rows, cols, o)
          /\ jY \in ShapeChoices(MeshY(rows, cols, o))
          /\ julia \in ShapeChoices(Filled(rows, cols, 0))
          /\ jWrites = Filled(rows, cols, 0)
          /\ jExec = [r \in 1..rows |-> 0]
          /\ jRowOwner = [r \in 1..rows |-> 0]
    /\ jC \in JuliaParams
    /\ jIterMax \in IterCaps
    /\ jThreads \in ThreadCounts(jVariant)
    /\ jW = [t \in 1..jThreads |-> IdleWorker]
    /\ jPhase = "running"
    /\ jRun = 1
    /\ jFirst = <<>>
    /\ jStale = FALSE
    /\ DistIdle
    /\ RangeIdle
    /\ MCIdle
    /\ ReduceIdle
    /\ RectIdle
    /\ SumIdle

\* the steps of worker t
WorkerStep(t) ==
    \/ \E r \in 1..ny : TakeRow(t, r)
    \/ LoadPixel(t)
    \/ WhileStep(t)

JuliaAnyNext ==
    \/ \E t \in 1..jThreads : WorkerStep(t)
    \/ Return

SpecJuliaAny == JuliaAnyInit /\ [][JuliaAnyNext]_vars

\* Fair scheduling: a worker that can take a step is not kept from it for
\* ever, and the call returns once the loop has ended.
SpecJuliaFair ==
    /\ SpecJuliaAny
    /\ \A t \in 1..MaxThreads : WF_vars(t <= jThreads /\ WorkerStep(t))
    /\ WF_vars(Return)

\* the workers that are inside a row iteration
Busy == {t \in 1..jThreads : jW[t].pc \in {"row", "while"}}

\* C18 as stated: every read X[i, j], every read Y[i, j] and every write
\* julia[i, j] uses indices inside the shape of the array accessed, for any
\* three arrays.
C18_IndicesInsideShapes ==
    \A t \in Busy :
        /\ InShape(jX, jW[t].i, jW[t].j)
        /\ InShape(jY, jW[t].i, jW[t].j)
        /\ InShape(julia, jW[t].i, jW[t].j)

\* What holds for any three arrays: the indices lie inside the shape of X,
\* and inside the shapes of Y and julia when these have the shape of X.
C18_IndicesInsideX ==
    \A t \in Busy :
        /\ InShape(jX, jW[t].i, jW[t].j)
        /\ SameShapes => (InShape(jY, jW[t].i, jW[t].j) /\ InShape(julia, jW[t].i, jW[t].j))

\* A worker is at a pixel of X that lies outside julia.
C18_Witness ==
    \E t \in Busy :
        /\ jW[t].pc = "while"
        /\ InShape(jX, jW[t].i, jW[t].j)
        /\ InShape(jY, jW[t].i, jW[t].j)
        /\ ~InShape(julia, jW[t].i, jW[t].j)

\* the largest number of passes the while loop of one pixel can make
MaxPasses == IF jIterMax > 0 THEN jIterMax ELSE 0

\* the while loop of no pixel has made more than max(iter_max, 0) passes
PassesBounded == \A t \in 1..jThreads : jW[t].k <= MaxPasses

\* at the return each of the ny * nx pixels of the loops was visited once
VisitedOnce ==
    jPhase = "returned" =>
        \A p \in Pixels : jWrites[p[1]][p[2]] = (IF p \in LoopPixels THEN 1 ELSE 0)

\* C16 as stated: for every input every call of a Julia kernel terminates:
\* the while loop of a pixel makes at most max(iter_max, 0) passes, each of
\* the ny * nx pixels is visited once, and under fair scheduling all workers
\* finish, so that the call returns.
C16_Terminates ==
    /\ []PassesBounded
    /\ []VisitedOnce
    /\ <>(jPhase = "returned")

\* What holds: the passes are bounded and no pixel is visited twice for
\* every input, and the call returns when Y and julia have the shape of X.
C16_TerminatesOnOneShape ==
    /\ []PassesBounded
    /\ []VisitedOnce
    /\ SameShapes => <>(jPhase = "returned")

\* A parallel call on arrays of one shape has returned after two workers
\* shared the rows, one pixel having used all iter_max passes.
C16_Witness ==
    /\ jPhase = "returned"
    /\ jVariant # "sequential"
    /\ SameShapes
    /\ \E r1, r2 \in 1..ny : jRowOwner[r1] = 1 /\ jRowOwner[r2] = 2
    /\ jIterMax > 0
    /\ \E p \in LoopPixels : julia[p[1]][p[2]] = jIterMax

(***************************************************************************)
(* The sequential kernel as a function of its inputs                       *)
(***************************************************************************)
\* the value of k when the while loop entered with (x, y, k) ends
RECURSIVE SequentialCount(_, _, _)
SequentialCount(x, y, k) ==
    IF LoopTest([x |-> x, y |-> y, k |-> k])
    THEN LET p == JuliaStep(x, y)
         IN  SequentialCount(p.x, p.y, k + 1)
    ELSE k

\* the grid the sequential kernel leaves in an output array that held out:
\* julia[i, j] = k for 0 <= i < ny, 0 <= j < nx, the other cells untouched
SequentialGrid(out) ==
    [i \in 1..GridRows |->
        [j \in 1..GridCols |->
            IF <<i, j>> \in LoopPixels
            THEN StoredValue(out[i][j], SequentialCount(jX[i][j], jY[i][j], 0))
            ELSE out[i][j]]]

\* C17: on identical inputs the sequential, the prange and the static kernel
\* leave the same output grid, the one of the sequential kernel, whatever the
\* number of threads and the interleaving of their steps.
C17_SameGridAllVariants ==
    (jPhase = "returned" /\ jRun = 1) =>
        julia = SequentialGrid(Filled(GridRows, GridCols, 0))

\* The static kernel has returned after two workers ran one row each, with a
\* pixel that escaped after some iterations and a pixel that never entered
\* the while loop.
C17_Witness ==
    /\ jPhase = "returned"
    /\ jRun = 1
    /\ jVariant = "static"
    /\ \E r1, r2 \in 1..ny : jRowOwner[r1] = 1 /\ jRowOwner[r2] = 2
    /\ \E p \in LoopPixels : 0 < julia[p[1]][p[2]] /\ julia[p[1]][p[2]] < jIterMax
    /\ \E p \in LoopPixels : julia[p[1]][p[2]] = 0 /\ jIterMax > 0

(***************************************************************************)
(* Claims on the life of the malloc-backed CyRangeVector's buffer          *)
(***************************************************************************)
\* the calls of malloc and free the object has made so far
HeapContract ==
    rvVariant = "malloc" =>
        /\ rvHeap.mallocs <= 1
        /\ rvHeap.frees = (IF rvPc = "dead" THEN 1 ELSE 0)
        /\ rvHeap.frees = 1 =>
              /\ rvHeap.freeArg \in {"null", "valid"}
              /\ rvHeap.freeArg = "valid" => rvHeap.mallocs = 1
        /\ (rvPc = "dead" /\ rvStart >= rvEnd) =>
              (rvHeap.mallocs = 0 /\ rvHeap.freeArg = "null")

\* once free was called the buffer is neither read nor written
NoUseAfterFree ==
    (rvVariant = "malloc" /\ rvHeap.frees >= 1) =>
        (rvGet' = rvGet /\ rvData' = rvData /\ rvHeap' = rvHeap)

\* C19: over the life of a malloc-backed CyRangeVector the buffer is allocated
\* at most once, it is freed exactly once and only when the object is
\* destroyed, the pointer handed to free is the one malloc returned or null,
\* and nothing is read or written after the free; this also when __cinit__
\* raised for start >= end and the object is then destroyed.
C19_BufferLife ==
    /\ []HeapContract
    /\ [][NoUseAfterFree]_vars

\* A malloc-backed CyRangeVector was constructed with a buffer of several
\* cells, read through __getitem__ and destroyed, its buffer freed.
C19_Witness ==
    /\ rvVariant = "malloc"
    /\ rvPc = "dead"
    /\ rvSize > 1
    /\ rvGet.called /\ rvGet.didRead
    /\ rvHeap.mallocs = 1 /\ rvHeap.frees = 1 /\ rvHeap.freeArg = "valid"

\* a construction of the malloc variant that passed the check start < end
PastCheck == rvVariant = "malloc" /\ rvPc # "new" /\ rvStart < rvEnd

\* every cell of the live buffer was written
AllWritten ==
    /\ Len(rvData) = rvSize
    /\ \A c \in 1..Len(rvData) : rvData[c].init

\* C20 as stated: in a construction with start < end, size = end - start
\* without wrapping, every write self.data[i - start] = i goes to a position
\* 0..size-1 of a buffer that was allocated, nothing is written through the
\* pointer when the allocation failed, and at completion every position has
\* been written.
C20_WritesInsideBuffer ==
    PastCheck =>
        /\ rvSize = rvEnd - rvStart
        /\ rvHeap.wrote =>
              (rvHeap.wptr = "valid" /\ 0 <= rvHeap.wpos /\ rvHeap.wpos < rvSize)
        /\ rvPc = "constructed" => (rvPtr = "valid" /\ AllWritten)

\* What holds: a write through a pointer malloc returned goes to a position
\* 0..size-1; and when start >= 0 or end < 0, size = end - start and a
\* construction whose allocation succeeded completes with every position
\* written.
C20_WritesInsideLiveBuffer ==
    PastCheck =>
        /\ (rvHeap.wrote /\ rvHeap.wptr = "valid") =>
              (0 <= rvHeap.wpos /\ rvHeap.wpos < rvSize)
        /\ (rvStart >= 0 \/ rvEnd < 0) =>
              /\ rvSize = rvEnd - rvStart
              /\ (rvPc = "constructed" /\ rvPtr = "valid") => AllWritten

\* A construction over negative numbers has completed with its buffer of
\* several cells written through.
C20_Witness ==
    /\ PastCheck
    /\ rvPc = "constructed"
    /\ rvEnd < 0
    /\ rvSize > 1
    /\ rvPtr = "valid"
    /\ AllWritten
    /\ rvHeap.wrote /\ rvHeap.wpos = rvSize - 1

====
